---- MODULE Spec2Model ----
(***************************************************************************)
(* corvid-agent/throttle: RateLimiter, throttle and debounce (src/index.ts) *)
(* as state machines over a discrete millisecond clock.                    *)
(*                                                                         *)
(* Time.  The code only ever compares a stored instant with Date.now() or  *)
(* hands a delay to setTimeout, so every stored instant is kept relative   *)
(* to the current reading of the clock: `now` is the origin, a stored      *)
(* instant t <= 0 lies -t ms in the past and a timer deadline d >= 0 lies  *)
(* d ms in the future.  A clock tick moves every stored value one ms       *)
(* towards the past.  Instants the code can no longer tell apart (a        *)
(* timestamp that has left the window, an execution at least `wait` ago)   *)
(* are held at the edge of that range, which keeps the state space finite  *)
(* without bounding time.  A timer whose deadline is reached fires before  *)
(* the clock moves on; calls made at the same millisecond may still run    *)
(* before it does.                                                         *)
(***************************************************************************)
EXTENDS Integers, Sequences, FiniteSets, TLC

\* ---------------------------------------------------------------- bounds
\* RateLimiterOptions.limit and .window of the limiter under test.
Limit == 2
Window == 11
\* At most this many acquire() calls are ever parked in the wait queue.
MaxWaiters == 2

\* The `wait` of the throttle and debounce wrappers under test, and the
\* debounce `maxWait` when one is configured.
Wait == 3
MaxWaitMs == 5
\* The wrapped function is called with one of the arguments 1..MaxArg.
MaxArg == 2

\* The floor of the drain delay, Math.max(delay, 10).
DrainFloor == 10

\* Date.now(), the origin of the relative clock.
now == 0

\* An absent value (undefined) is the empty sequence, a present one <<v>>.
None == <<>>
Some(v) == <<v>>

Max(a, b) == IF a >= b THEN a ELSE b

VARIABLES
  \* RateLimiter fields
  strategy,      \* "drop" | "queue" | "error"
  timestamps,    \* number[], oldest first
  queue,         \* waiters ({resolve, reject} pairs), identified by arrival number
  drainTimer,    \* None, or Some(deadline) of the pending setTimeout
  \* observation of the limiter
  grants,        \* instants of the slot-consuming grants still inside the window
  nextId,        \* arrival number of the next parked acquire()
  resolved,      \* waiters whose resolve() was called, in call order
  rlEvent,       \* the last operation and what it returned
  waiterArg,     \* per waiter id: Some(args) while a call of wrap(fn)'s function is parked, else None
  fnRuns,        \* instants inside the window, since the last reset(), at which the wrapped fn ran
  drainTimers,   \* drain timers set and neither fired nor cleared
  retryDue,      \* None, or <<ms left of r, r>> for the latest retryAfter() result r; void once a slot is taken or reset() runs
  \* throttle closure
  thLeading,     \* options.leading
  thTrailing,    \* options.trailing
  thLastExecTime,\* lastExecTime
  thTimer,       \* timer: None, or Some(deadline)
  thLastArgs,    \* lastArgs: None, or Some(args)
  thIsPending,   \* isPending
  \* observation of the throttle
  thSinceExec,   \* ms since fn last ran (Wait stands for "Wait or more, or never")
  thLastCall,    \* arguments of the latest wrapper call
  thSuppressed,  \* calls since fn last ran that did not run it (up to 2), 0 after cancel()
  thFresh,       \* ms since the latest call made Wait or more after the last run, None once fn ran
  thEvent,       \* the last operation, what it returned and what it executed
  \* debounce closure
  dbLeading,     \* options.leading
  dbMaxWait,     \* options.maxWait: None, or Some(ms)
  dbTimer,       \* timer: None, or Some(deadline)
  dbMaxTimer,    \* maxTimer: None, or Some(deadline)
  dbLastArgs,    \* lastArgs: None, or Some(args)
  dbIsPending,   \* isPending
  dbLeadingCalled, \* leadingCalled
  \* observation of the debounce
  dbSinceCall,   \* ms since the latest wrapper call (Wait stands for "Wait or more, or never")
  dbLastCall,    \* arguments of the latest wrapper call
  dbBurst,       \* None, or Some(ms since the call that started the burst in progress)
  dbBurstCalls,  \* calls of the burst (up to 2)
  dbBurstExecs,  \* executions of fn since the burst started (up to 3)
  dbLastExec,    \* arguments of the latest execution since the burst started
  dbEvent        \* the last operation and what it executed

rlVars == <<strategy, timestamps, queue, drainTimer, grants, nextId, resolved, rlEvent,
            waiterArg, fnRuns, drainTimers, retryDue>>

thVars == <<thLeading, thTrailing, thLastExecTime, thTimer, thLastArgs, thIsPending,
            thSinceExec, thLastCall, thSuppressed, thFresh, thEvent>>

dbVars == <<dbLeading, dbMaxWait, dbTimer, dbMaxTimer, dbLastArgs, dbIsPending,
            dbLeadingCalled, dbSinceCall, dbLastCall, dbBurst, dbBurstCalls,
            dbBurstExecs, dbLastExec, dbEvent>>

vars == <<rlVars, thVars, dbVars>>

Args == 1..MaxArg
Min(a, b) == IF a <= b THEN a ELSE b

Strategies == {"drop", "queue", "error"}

\* ------------------------------------------------------------ RateLimiter

\* cleanup(): drop the timestamps that are not newer than now - window.
cleanupBug(ts) == SelectSeq(ts, LAMBDA t : t >= now - Window)
cleanup(ts) == SelectSeq(ts, LAMBDA t : t > now - Window)

\* tryAcquire(): the returned flag and the timestamps it leaves.
tryAcquireBug(ts) ==
  LET c == cleanup(ts)
  IN  [ok |-> Len(c) < Limit, ts |-> Append(c, now)]
tryAcquire(ts) ==
  LET c == cleanup(ts)
  IN  IF Len(c) < Limit
        THEN [ok |-> TRUE, ts |-> Append(c, now)]
        ELSE [ok |-> FALSE, ts |-> c]

\* remaining() and retryAfter(): the returned number (both run cleanup()).
remaining(ts) == Max(0, Limit - Len(cleanup(ts)))

retryAfterBug(ts) ==
  LET c == cleanup(ts)
  IN  IF Len(c) < Limit THEN 0 ELSE Max(0, c[Len(c)] + Window - now)
retryAfter(ts) ==
  LET c == cleanup(ts)
  IN  IF Len(c) < Limit THEN 0 ELSE Max(0, c[1] + Window - now)

\* scheduleDrain(): the drain timer it leaves, given the timer and timestamps.
scheduleDrainBug(dt, ts) == dt
scheduleDrain(dt, ts) ==
  IF dt # None THEN dt
  ELSE Some(now + Max(retryAfter(ts), DrainFloor))

\* scheduleDrain() cleans the timestamps (through retryAfter) unless it returns early.
scheduleDrainTs(dt, ts) == IF dt # None THEN ts ELSE cleanup(ts)

\* this.queue.push(item)
pushBug(q, w) == <<w>> \o q
push(q, w) == Append(q, w)

\* this.queue.shift()
shiftBug(q) == [item |-> q[Len(q)], rest |-> SubSeq(q, 1, Len(q) - 1)]
shift(q) == [item |-> Head(q), rest |-> Tail(q)]

\* The while loop of drainQueue(): grant waiters while tryAcquire() succeeds.
RECURSIVE drainLoop(_, _, _)
drainLoop(ts, q, done) ==
  IF Len(q) = 0 THEN [ts |-> ts, q |-> q, done |-> done]
  ELSE LET r == tryAcquire(ts)
       IN  IF r.ok
             THEN drainLoop(r.ts, shift(q).rest, Append(done, shift(q).item))
             ELSE [ts |-> r.ts, q |-> q, done |-> done]

\* Grants still inside the window, by the claim's criterion.
LiveGrants == Cardinality({i \in DOMAIN grants : grants[i] > now - Window})
SlotFree == LiveGrants < Limit

\* new RateLimitError(limit, window)
RateLimitError(l, w) == [name |-> "RateLimitError", limit |-> l, window |-> w]

\* What an operation records: its result, the error it raised (if any), and
\* the queue length and slot availability just before it.
EventRan(op, a, ret, err, ran) ==
  [op |-> op, arg |-> a, ret |-> ret, err |-> err, ran |-> ran, due |-> retryDue,
   qlen |-> Len(queue), free |-> SlotFree]
EventArg(op, a, ret, err) ==
  EventRan(op, a, ret, err, IF ret = "invoked" THEN <<a>> ELSE <<>>)
EventErr(op, ret, err) == EventArg(op, 0, ret, err)
Event(op, ret) == EventErr(op, ret, None)

\* `if (!acquired) throw ...; return fn(...args)`: whether wrap's function
\* goes on to invoke fn, given what acquire() resolved to.
wrapInvokesBug(acquired) == TRUE
wrapInvokes(acquired) == acquired

\* The invocations of fn made by the waiters `ids` once their acquire() has
\* resolved to true: the arguments of those that came from wrap's function.
fnCalls(ids) ==
  LET w == SelectSeq(ids, LAMBDA i : waiterArg[i] # None /\ wrapInvokes(TRUE))
  IN  [k \in DOMAIN w |-> waiterArg[w[k]][1]]

\* The waiters `ids` are parked no longer.
settled(ids) ==
  [i \in DOMAIN waiterArg |->
     IF \E k \in DOMAIN ids : ids[k] = i THEN None ELSE waiterArg[i]]

\* setTimeout calls made by scheduleDrain(): one unless it returned early.
timersSet(dt, ts) == IF scheduleDrain(dt, ts) # dt THEN 1 ELSE 0

RECURSIVE Repeat(_, _)
Repeat(v, n) == IF n = 0 THEN <<>> ELSE <<v>> \o Repeat(v, n - 1)

RateLimiterInit ==
  /\ strategy \in Strategies
  /\ timestamps = <<>>
  /\ queue = <<>>
  /\ drainTimer = None
  /\ grants = <<>>
  /\ nextId = 1
  /\ resolved = <<>>
  /\ rlEvent = [op |-> "new", arg |-> 0, ret |-> "none", err |-> None, ran |-> <<>>,
                due |-> None,
                qlen |-> 0, free |-> TRUE]
  /\ waiterArg = <<>>
  /\ fnRuns = <<>>
  /\ drainTimers = 0
  /\ retryDue = None

TryAcquire ==
  LET r == tryAcquire(timestamps)
  IN  /\ timestamps' = r.ts
      /\ grants' = IF r.ok THEN Append(grants, now) ELSE grants
      /\ rlEvent' = Event("tryAcquire", IF r.ok THEN "true" ELSE "false")
      /\ UNCHANGED <<strategy, queue, drainTimer, nextId, resolved,
                   waiterArg, fnRuns, drainTimers>>
      /\ retryDue' = IF r.ok THEN None ELSE retryDue

Acquire ==
  LET r == tryAcquire(timestamps)
  IN  IF r.ok
        THEN /\ timestamps' = r.ts
             /\ grants' = Append(grants, now)
             /\ rlEvent' = Event("acquire", "true")
             /\ UNCHANGED <<strategy, queue, drainTimer, nextId, resolved,
                          waiterArg, fnRuns, drainTimers>>
             /\ retryDue' = None
        ELSE CASE strategy = "error" ->
                    /\ timestamps' = r.ts
                    /\ rlEvent' = EventErr("acquire", "reject",
                                            Some(RateLimitError(Limit, Window)))
                    /\ UNCHANGED <<strategy, queue, drainTimer, grants, nextId, resolved,
                                 waiterArg, fnRuns, drainTimers, retryDue>>
               [] strategy = "drop" ->
                    /\ timestamps' = r.ts
                    /\ rlEvent' = Event("acquire", "false")
                    /\ UNCHANGED <<strategy, queue, drainTimer, grants, nextId, resolved,
                                 waiterArg, fnRuns, drainTimers, retryDue>>
               [] strategy = "queue" ->
                    /\ nextId <= MaxWaiters
                    /\ queue' = push(queue, nextId)
                    /\ nextId' = nextId + 1
                    /\ drainTimer' = scheduleDrain(drainTimer, r.ts)
                    /\ timestamps' = scheduleDrainTs(drainTimer, r.ts)
                    /\ drainTimers' = drainTimers + timersSet(drainTimer, r.ts)
                    /\ waiterArg' = Append(waiterArg, None)
                    /\ rlEvent' = Event("acquire", "queued")
                    /\ UNCHANGED <<strategy, grants, resolved, fnRuns, retryDue>>

Remaining ==
  /\ timestamps' = cleanup(timestamps)
  /\ rlEvent' = Event("remaining", ToString(remaining(timestamps)))
  /\ UNCHANGED <<strategy, queue, drainTimer, grants, nextId, resolved,
               waiterArg, fnRuns, drainTimers, retryDue>>

RetryAfter ==
  /\ timestamps' = cleanup(timestamps)
  /\ rlEvent' = Event("retryAfter", ToString(retryAfter(timestamps)))
  /\ UNCHANGED <<strategy, queue, drainTimer, grants, nextId, resolved,
               waiterArg, fnRuns, drainTimers, retryDue>>

\* retryAfter() whose caller keeps the result r to try again r ms later.
RetryAfterWatched ==
  /\ timestamps' = cleanup(timestamps)
  /\ rlEvent' = Event("retryAfter", ToString(retryAfter(timestamps)))
  /\ UNCHANGED <<strategy, queue, drainTimer, grants, nextId, resolved,
               waiterArg, fnRuns, drainTimers>>
  /\ retryDue' = <<retryAfter(timestamps), retryAfter(timestamps)>>

ResetBug ==
  /\ timestamps' = <<>>
  /\ resolved' = resolved \o queue
  /\ queue' = <<>>
  /\ grants' = <<>>
  /\ fnRuns' = <<>>
  /\ waiterArg' = settled(queue)
  /\ rlEvent' = EventRan("reset", 0, "none", None, fnCalls(queue))
  /\ UNCHANGED <<strategy, nextId, drainTimer, drainTimers>>
  /\ retryDue' = None

Reset ==
  /\ timestamps' = <<>>
  /\ resolved' = resolved \o queue
  /\ queue' = <<>>
  /\ drainTimer' = None
  /\ drainTimers' = IF drainTimer # None THEN drainTimers - 1 ELSE drainTimers
  /\ grants' = <<>>
  /\ fnRuns' = <<>>
  /\ waiterArg' = settled(queue)
  /\ rlEvent' = EventRan("reset", 0, "none", None, fnCalls(queue))
  /\ UNCHANGED <<strategy, nextId>>
  /\ retryDue' = None

\* A call of the function returned by wrap(fn), with its continuation after
\* `await this.acquire()` when that settles at once.
WrapCall(a) ==
  LET r == tryAcquire(timestamps)
      ran == Append(fnRuns, now)
  IN  IF r.ok
        THEN /\ timestamps' = r.ts
             /\ grants' = Append(grants, now)
             /\ fnRuns' = IF wrapInvokes(TRUE) THEN ran ELSE fnRuns
             /\ rlEvent' = IF wrapInvokes(TRUE)
                              THEN EventArg("wrap", a, "invoked", None)
                              ELSE EventArg("wrap", a, "reject",
                                            Some(RateLimitError(Limit, Window)))
             /\ UNCHANGED <<strategy, queue, drainTimer, nextId, resolved,
                            waiterArg, drainTimers>>
             /\ retryDue' = None
        ELSE CASE strategy = "error" ->
                    /\ timestamps' = r.ts
                    /\ rlEvent' = EventArg("wrap", a, "reject",
                                            Some(RateLimitError(Limit, Window)))
                    /\ UNCHANGED <<strategy, queue, drainTimer, grants, nextId, resolved,
                                   waiterArg, fnRuns, drainTimers, retryDue>>
               [] strategy = "drop" ->
                    /\ timestamps' = r.ts
                    /\ fnRuns' = IF wrapInvokes(FALSE) THEN ran ELSE fnRuns
                    /\ rlEvent' = IF wrapInvokes(FALSE)
                                     THEN EventArg("wrap", a, "invoked", None)
                                     ELSE EventArg("wrap", a, "reject",
                                                   Some(RateLimitError(Limit, Window)))
                    /\ UNCHANGED <<strategy, queue, drainTimer, grants, nextId, resolved,
                                   waiterArg, drainTimers, retryDue>>
               [] strategy = "queue" ->
                    /\ nextId <= MaxWaiters
                    /\ queue' = push(queue, nextId)
                    /\ nextId' = nextId + 1
                    /\ drainTimer' = scheduleDrain(drainTimer, r.ts)
                    /\ timestamps' = scheduleDrainTs(drainTimer, r.ts)
                    /\ drainTimers' = drainTimers + timersSet(drainTimer, r.ts)
                    /\ waiterArg' = Append(waiterArg, Some(a))
                    /\ rlEvent' = EventArg("wrap", a, "queued", None)
                    /\ UNCHANGED <<strategy, grants, resolved, fnRuns, retryDue>>

\* A timer handle whose deadline has been reached / has not been reached.
Due(t) == IF t = None THEN FALSE ELSE t[1] <= now
NotDue(t) == IF t = None THEN TRUE ELSE t[1] > now
Countdown(t) == IF t = None THEN None ELSE Some(t[1] - 1)

\* The end of drainQueue(): the drain timer it leaves for the waiters that remain.
rescheduleBug(q, ts) == None
reschedule(q, ts) == IF Len(q) > 0 THEN scheduleDrain(None, ts) ELSE None

\* The drain timer's callback: clear the handle, then drainQueue().
DrainFire ==
  /\ Due(drainTimer)
  /\ LET d == drainLoop(timestamps, queue, <<>>)
     IN  /\ queue' = d.q
         /\ resolved' = resolved \o d.done
         /\ grants' = grants \o Repeat(now, Len(d.done))
         /\ drainTimer' = reschedule(d.q, d.ts)
         /\ timestamps' = IF Len(d.q) > 0 THEN scheduleDrainTs(None, d.ts) ELSE d.ts
         /\ drainTimers' = drainTimers - 1 + (IF reschedule(d.q, d.ts) # None THEN 1 ELSE 0)
         /\ fnRuns' = fnRuns \o Repeat(now, Len(fnCalls(d.done)))
         /\ waiterArg' = settled(d.done)
         /\ rlEvent' = EventRan("drain", 0, ToString(Len(d.done)), None, fnCalls(d.done))
         /\ retryDue' = IF Len(d.done) > 0 THEN None ELSE retryDue
  /\ UNCHANGED <<strategy, nextId>>

\* One millisecond passes; no timer is overdue.
Age(s, floor) == [i \in DOMAIN s |-> Max(s[i] - 1, floor)]

TickRL ==
  /\ NotDue(drainTimer)
  /\ timestamps' = Age(timestamps, now - Window)
  /\ grants' = SelectSeq(Age(grants, now - Window), LAMBDA t : t > now - Window)
  /\ drainTimer' = Countdown(drainTimer)
  /\ fnRuns' = SelectSeq(Age(fnRuns, now - Window), LAMBDA t : t > now - Window)
  /\ rlEvent' = Event("tick", "none")
  /\ UNCHANGED <<strategy, queue, nextId, resolved, waiterArg, drainTimers>>
  /\ retryDue' = IF retryDue = None THEN None
                 ELSE <<Max(retryDue[1] - 1, 0), retryDue[2]>>

\* --------------------------------------------------------------- throttle

\* setTimeout(cb, delay): the deadline; a negative delay counts as 0.
setTimeout(delay) == now + Max(delay, 0)

\* `elapsed >= wait`, the test that opens a new window.
windowElapsedBug(elapsed) == elapsed >= 0
windowElapsed(elapsed) == elapsed >= Wait

\* `remaining = wait - elapsed`, the delay of the trailing timer.
trailingDelayBug(elapsed) == Wait
trailingDelay(elapsed) == Wait - elapsed

\* lastExecTime starts at 0, the epoch, which lies more than `wait` before any
\* reading of Date.now().
ThrottleInit(l, t) ==
  /\ thLeading = l
  /\ thTrailing = t
  /\ thLastExecTime = now - Wait
  /\ thTimer = None
  /\ thLastArgs = None
  /\ thIsPending = FALSE
  /\ thSinceExec = Wait
  /\ thLastCall = None
  /\ thSuppressed = 0
  /\ thFresh = None
  /\ thEvent = [op |-> "new", arg |-> 0, ret |-> None, exec |-> None,
                gap |-> Wait, k |-> 0, fresh |-> None]

\* What an operation records: its result, the arguments fn ran with (if it
\* ran), and the observation just before the operation.
ThEvent(op, a, ret, exec) ==
  [op |-> op, arg |-> a, ret |-> ret, exec |-> exec,
   gap |-> thSinceExec, k |-> thSuppressed, fresh |-> thFresh]

\* fn ran: the observation starts over.
ThRan ==
  /\ thSinceExec' = 0
  /\ thSuppressed' = 0
  /\ thFresh' = None

\* throttled(...args): fn returns a value determined by its arguments, Some(a).
Throttled(a) ==
  LET elapsed == now - thLastExecTime
      cleared == IF windowElapsed(elapsed) THEN None ELSE thTimer
  IN  /\ thLastCall' = Some(a)
      /\ IF windowElapsed(elapsed) /\ thLeading
           THEN \* return execute(args)
                /\ thLastArgs' = Some(a)
                /\ thTimer' = cleared
                /\ thLastExecTime' = now
                /\ thIsPending' = FALSE
                /\ thEvent' = ThEvent("call", a, Some(a), Some(a))
                /\ ThRan
           ELSE /\ thLastArgs' = Some(a)
                /\ IF thTrailing /\ cleared = None
                     THEN /\ thIsPending' = TRUE
                          /\ thTimer' = Some(setTimeout(trailingDelay(elapsed)))
                     ELSE /\ thIsPending' = thIsPending
                          /\ thTimer' = cleared
                /\ thEvent' = ThEvent("call", a, None, None)
                /\ thSuppressed' = Min(thSuppressed + 1, 2)
                /\ thFresh' = IF thSinceExec >= Wait THEN Some(0) ELSE thFresh
                /\ UNCHANGED <<thLastExecTime, thSinceExec>>
      /\ UNCHANGED <<thLeading, thTrailing>>

\* The trailing timer's callback.
ThTimerFire ==
  /\ Due(thTimer)
  /\ thTimer' = None
  /\ IF thTrailing /\ thLastArgs # None
       THEN /\ thLastExecTime' = now
            /\ thIsPending' = FALSE
            /\ thLastArgs' = None
            /\ thEvent' = ThEvent("timer", 0, None, thLastArgs)
            /\ ThRan
       ELSE /\ thEvent' = ThEvent("timer", 0, None, None)
            /\ UNCHANGED <<thLastExecTime, thIsPending, thLastArgs,
                           thSinceExec, thSuppressed, thFresh>>
  /\ UNCHANGED <<thLeading, thTrailing, thLastCall>>

\* throttled.cancel()
ThCancelBug ==
  /\ thIsPending' = FALSE
  /\ thSuppressed' = 0
  /\ thFresh' = None
  /\ thEvent' = ThEvent("cancel", 0, None, None)
  /\ UNCHANGED <<thLeading, thTrailing, thLastExecTime, thSinceExec, thLastCall,
                 thTimer, thLastArgs>>

ThCancel ==
  /\ thTimer' = None
  /\ thLastArgs' = None
  /\ thIsPending' = FALSE
  /\ thSuppressed' = 0
  /\ thFresh' = None
  /\ thEvent' = ThEvent("cancel", 0, None, None)
  /\ UNCHANGED <<thLeading, thTrailing, thLastExecTime, thSinceExec, thLastCall>>

\* throttled.flush()
ThFlushBug ==
  /\ IF thTimer # None /\ thLastArgs # None
       THEN /\ thLastExecTime' = now
            /\ thIsPending' = FALSE
            /\ thEvent' = ThEvent("flush", 0, None, thLastArgs)
            /\ ThRan
            /\ UNCHANGED <<thTimer, thLastArgs>>
       ELSE /\ thEvent' = ThEvent("flush", 0, None, None)
            /\ UNCHANGED <<thTimer, thLastExecTime, thIsPending, thLastArgs,
                           thSinceExec, thSuppressed, thFresh>>
  /\ UNCHANGED <<thLeading, thTrailing, thLastCall>>

ThFlush ==
  /\ IF thTimer # None /\ thLastArgs # None
       THEN /\ thTimer' = None
            /\ thLastExecTime' = now
            /\ thIsPending' = FALSE
            /\ thLastArgs' = None
            /\ thEvent' = ThEvent("flush", 0, None, thLastArgs)
            /\ ThRan
       ELSE /\ thEvent' = ThEvent("flush", 0, None, None)
            /\ UNCHANGED <<thTimer, thLastExecTime, thIsPending, thLastArgs,
                           thSinceExec, thSuppressed, thFresh>>
  /\ UNCHANGED <<thLeading, thTrailing, thLastCall>>

\* fn calls the wrapper with b while execute() runs it. At that point the timer
\* handle is cleared, lastExecTime is now and isPending is false, so the call
\* sees elapsed = 0 < wait, stores b and (with trailing) schedules a timer.
reenterTimer == IF thTrailing THEN Some(setTimeout(trailingDelay(now - now))) ELSE None
reenterPending == thTrailing

\* throttled(a) that executes fn, which calls throttled(b).
ThrottledRe(a, b) ==
  /\ windowElapsed(now - thLastExecTime) /\ thLeading
  /\ thLastExecTime' = now
  /\ thLastArgs' = Some(b)
  /\ thTimer' = reenterTimer
  /\ thIsPending' = reenterPending
  /\ thLastCall' = Some(b)
  /\ thSinceExec' = 0
  /\ thSuppressed' = 1
  /\ thFresh' = None
  /\ thEvent' = ThEvent("callRe", b, Some(a), Some(a))
  /\ UNCHANGED <<thLeading, thTrailing>>

\* The trailing timer's callback executing fn, which calls throttled(b);
\* `lastArgs = undefined` then runs after fn has returned.
ThTimerFireRe(b) ==
  /\ Due(thTimer)
  /\ thTrailing /\ thLastArgs # None
  /\ thLastExecTime' = now
  /\ thLastArgs' = None
  /\ thTimer' = reenterTimer
  /\ thIsPending' = reenterPending
  /\ thLastCall' = Some(b)
  /\ thSinceExec' = 0
  /\ thSuppressed' = 1
  /\ thFresh' = None
  /\ thEvent' = ThEvent("timerRe", b, None, thLastArgs)
  /\ UNCHANGED <<thLeading, thTrailing>>

\* flush() executing fn, which calls throttled(b).
ThFlushRe(b) ==
  /\ thTimer # None /\ thLastArgs # None
  /\ thLastExecTime' = now
  /\ thLastArgs' = None
  /\ thTimer' = reenterTimer
  /\ thIsPending' = reenterPending
  /\ thLastCall' = Some(b)
  /\ thSinceExec' = 0
  /\ thSuppressed' = 1
  /\ thFresh' = None
  /\ thEvent' = ThEvent("flushRe", b, None, thLastArgs)
  /\ UNCHANGED <<thLeading, thTrailing>>

\* One millisecond passes; the trailing timer is not overdue.
TickTh ==
  /\ NotDue(thTimer)
  /\ thTimer' = Countdown(thTimer)
  /\ thLastExecTime' = Max(thLastExecTime - 1, now - Wait)
  /\ thSinceExec' = Min(thSinceExec + 1, Wait)
  /\ thFresh' = IF thFresh = None THEN None ELSE Some(Min(thFresh[1] + 1, Wait))
  /\ thEvent' = [op |-> "tick", arg |-> 0, ret |-> None, exec |-> None,
                 gap |-> 0, k |-> 0, fresh |-> None]
  /\ UNCHANGED <<thLeading, thTrailing, thLastArgs, thIsPending, thLastCall, thSuppressed>>

\* --------------------------------------------------------------- debounce

\* The quiet-period timer a call leaves: the old one is cleared, a new one set.
quietTimerBug(t) == IF t # None THEN t ELSE Some(setTimeout(Wait))
quietTimer(t) == Some(setTimeout(Wait))

\* `maxWait !== undefined && !maxTimer`: the call starts the ceiling timer.
startsCeilingBug(mw, mt) == mw # None
startsCeiling(mw, mt) == mw # None /\ mt = None

\* The quiet-period callback's test `!leading || lastArgs`.
quietFireExecutes(l, args) == ~l \/ args # None

DebounceInit(l, m) ==
  /\ dbLeading = l
  /\ dbMaxWait = m
  /\ dbTimer = None
  /\ dbMaxTimer = None
  /\ dbLastArgs = None
  /\ dbIsPending = FALSE
  /\ dbLeadingCalled = FALSE
  /\ dbSinceCall = Wait
  /\ dbLastCall = None
  /\ dbBurst = None
  /\ dbBurstCalls = 0
  /\ dbBurstExecs = 0
  /\ dbLastExec = None
  /\ dbEvent = [op |-> "new", arg |-> 0, exec |-> None, sinceCall |-> Wait,
                burst |-> None, calls |-> 0, execs |-> 0]

\* What an operation records: the arguments fn ran with (if it ran) and the
\* observation just before the operation.
DbEvent(op, a, exec) ==
  [op |-> op, arg |-> a, exec |-> exec, sinceCall |-> dbSinceCall,
   burst |-> dbBurst, calls |-> dbBurstCalls, execs |-> dbBurstExecs]

\* The observation after an operation that ran fn with `exec` (None: did not).
DbCount(before, exec) == IF exec = None THEN before ELSE Min(before + 1, 3)
DbLatest(before, exec) == IF exec = None THEN before ELSE exec

\* execute(): runs fn with lastArgs if there are any, then clears the state.
DbExecuteBug ==
  /\ dbLastArgs' = None
  /\ dbIsPending' = FALSE
  /\ dbLeadingCalled' = FALSE
  /\ dbMaxTimer' = dbMaxTimer

DbExecute ==
  /\ dbLastArgs' = None
  /\ dbIsPending' = FALSE
  /\ dbLeadingCalled' = FALSE
  /\ dbMaxTimer' = None

\* The burst is over (a timer fired, or flush() or cancel() was called).
DbBurstOver(exec) ==
  /\ dbBurst' = None
  /\ dbBurstCalls' = 0
  /\ dbBurstExecs' = DbCount(dbBurstExecs, exec)
  /\ dbLastExec' = DbLatest(dbLastExec, exec)

\* debounced(...args)
Debounced(a) ==
  LET lead == dbLeading /\ ~dbLeadingCalled
      exec == IF lead THEN Some(a) ELSE None
      fresh == dbBurst = None
  IN  /\ dbLastArgs' = Some(a)
      /\ dbIsPending' = TRUE
      /\ dbLeadingCalled' = (dbLeadingCalled \/ lead)
      /\ dbTimer' = quietTimer(dbTimer)
      /\ dbMaxTimer' = IF startsCeiling(dbMaxWait, dbMaxTimer)
                         THEN Some(setTimeout(dbMaxWait[1]))
                         ELSE dbMaxTimer
      /\ dbEvent' = DbEvent("call", a, exec)
      /\ dbSinceCall' = 0
      /\ dbLastCall' = Some(a)
      /\ dbBurst' = IF fresh THEN Some(0) ELSE dbBurst
      /\ dbBurstCalls' = IF fresh THEN 1 ELSE Min(dbBurstCalls + 1, 2)
      /\ dbBurstExecs' = DbCount(IF fresh THEN 0 ELSE dbBurstExecs, exec)
      /\ dbLastExec' = DbLatest(IF fresh THEN None ELSE dbLastExec, exec)
      /\ UNCHANGED <<dbLeading, dbMaxWait>>

\* The quiet-period timer's callback.
DbTimerFire ==
  /\ Due(dbTimer)
  /\ dbTimer' = None
  /\ IF quietFireExecutes(dbLeading, dbLastArgs)
       THEN /\ DbExecute
            /\ dbEvent' = DbEvent("timer", 0, dbLastArgs)
            /\ DbBurstOver(dbLastArgs)
       ELSE /\ dbIsPending' = FALSE
            /\ dbLeadingCalled' = FALSE
            /\ dbEvent' = DbEvent("timer", 0, None)
            /\ DbBurstOver(None)
            /\ UNCHANGED <<dbLastArgs, dbMaxTimer>>
  /\ UNCHANGED <<dbLeading, dbMaxWait, dbSinceCall, dbLastCall>>

\* The ceiling (maxWait) timer's callback.
DbMaxTimerFire ==
  /\ Due(dbMaxTimer)
  /\ dbTimer' = None
  /\ DbExecute
  /\ dbEvent' = DbEvent("max", 0, dbLastArgs)
  /\ DbBurstOver(dbLastArgs)
  /\ UNCHANGED <<dbLeading, dbMaxWait, dbSinceCall, dbLastCall>>

\* debounced.cancel()
DbCancelBug ==
  /\ dbIsPending' = FALSE
  /\ dbLeadingCalled' = FALSE
  /\ dbEvent' = DbEvent("cancel", 0, None)
  /\ DbBurstOver(None)
  /\ UNCHANGED <<dbLeading, dbMaxWait, dbSinceCall, dbLastCall,
                 dbTimer, dbMaxTimer, dbLastArgs>>

DbCancel ==
  /\ dbTimer' = None
  /\ dbMaxTimer' = None
  /\ dbLastArgs' = None
  /\ dbIsPending' = FALSE
  /\ dbLeadingCalled' = FALSE
  /\ dbEvent' = DbEvent("cancel", 0, None)
  /\ DbBurstOver(None)
  /\ UNCHANGED <<dbLeading, dbMaxWait, dbSinceCall, dbLastCall>>

\* debounced.flush()
DbFlushBug ==
  /\ dbTimer' = dbTimer
  /\ DbExecute
  /\ dbEvent' = DbEvent("flush", 0, dbLastArgs)
  /\ DbBurstOver(dbLastArgs)
  /\ UNCHANGED <<dbLeading, dbMaxWait, dbSinceCall, dbLastCall>>

DbFlush ==
  /\ dbTimer' = None
  /\ DbExecute
  /\ dbEvent' = DbEvent("flush", 0, dbLastArgs)
  /\ DbBurstOver(dbLastArgs)
  /\ UNCHANGED <<dbLeading, dbMaxWait, dbSinceCall, dbLastCall>>

\* One millisecond passes; neither timer is overdue.
TickDb ==
  /\ NotDue(dbTimer)
  /\ NotDue(dbMaxTimer)
  /\ dbTimer' = Countdown(dbTimer)
  /\ dbMaxTimer' = Countdown(dbMaxTimer)
  /\ dbSinceCall' = Min(dbSinceCall + 1, Wait)
  /\ dbBurst' = IF dbBurst = None THEN None ELSE Some(Min(dbBurst[1] + 1, MaxWaitMs + 1))
  /\ dbEvent' = [op |-> "tick", arg |-> 0, exec |-> None, sinceCall |-> 0,
                 burst |-> None, calls |-> 0, execs |-> 0]
  /\ UNCHANGED <<dbLeading, dbMaxWait, dbLastArgs, dbIsPending, dbLeadingCalled,
                 dbLastCall, dbBurstCalls, dbBurstExecs, dbLastExec>>

\* ------------------------------------------------------------ specifications
\* The three components share no state; each specification runs one of them
\* and leaves the others as constructed.

InitRL == RateLimiterInit /\ ThrottleInit(TRUE, TRUE) /\ DebounceInit(FALSE, None)

NextRL ==
  \/ TryAcquire /\ UNCHANGED <<thVars, dbVars>>
  \/ Acquire /\ UNCHANGED <<thVars, dbVars>>
  \/ Remaining /\ UNCHANGED <<thVars, dbVars>>
  \/ RetryAfter /\ UNCHANGED <<thVars, dbVars>>
  \/ Reset /\ UNCHANGED <<thVars, dbVars>>
  \/ DrainFire /\ UNCHANGED <<thVars, dbVars>>
  \/ TickRL /\ UNCHANGED <<thVars, dbVars>>

SpecRL == InitRL /\ [][NextRL]_vars

\* The limiter used through the function that wrap(fn) returns.
NextWrap ==
  \/ \E a \in Args : WrapCall(a) /\ UNCHANGED <<thVars, dbVars>>
  \/ Reset /\ UNCHANGED <<thVars, dbVars>>
  \/ DrainFire /\ UNCHANGED <<thVars, dbVars>>
  \/ TickRL /\ UNCHANGED <<thVars, dbVars>>

SpecWrap == InitRL /\ [][NextWrap]_vars

\* The limiter with a caller that asks retryAfter() and tries again later.
NextRetry ==
  \/ RetryAfterWatched /\ UNCHANGED <<thVars, dbVars>>
  \/ TryAcquire /\ UNCHANGED <<thVars, dbVars>>
  \/ Acquire /\ UNCHANGED <<thVars, dbVars>>
  \/ Reset /\ UNCHANGED <<thVars, dbVars>>
  \/ DrainFire /\ UNCHANGED <<thVars, dbVars>>
  \/ TickRL /\ UNCHANGED <<thVars, dbVars>>

SpecRetry == InitRL /\ [][NextRetry]_vars

InitTh ==
  /\ RateLimiterInit /\ strategy = "drop"
  /\ \E l \in BOOLEAN, t \in BOOLEAN : ThrottleInit(l, t)
  /\ DebounceInit(FALSE, None)

NextTh ==
  \/ \E a \in Args : Throttled(a) /\ UNCHANGED <<rlVars, dbVars>>
  \/ ThTimerFire /\ UNCHANGED <<rlVars, dbVars>>
  \/ ThCancel /\ UNCHANGED <<rlVars, dbVars>>
  \/ ThFlush /\ UNCHANGED <<rlVars, dbVars>>
  \/ TickTh /\ UNCHANGED <<rlVars, dbVars>>

SpecTh == InitTh /\ [][NextTh]_vars

\* The throttle wrapping an fn that may call the wrapper while it runs.
NextThRe ==
  \/ \E a \in Args : Throttled(a) /\ UNCHANGED <<rlVars, dbVars>>
  \/ \E a, b \in Args : ThrottledRe(a, b) /\ UNCHANGED <<rlVars, dbVars>>
  \/ ThTimerFire /\ UNCHANGED <<rlVars, dbVars>>
  \/ \E b \in Args : ThTimerFireRe(b) /\ UNCHANGED <<rlVars, dbVars>>
  \/ ThCancel /\ UNCHANGED <<rlVars, dbVars>>
  \/ ThFlush /\ UNCHANGED <<rlVars, dbVars>>
  \/ \E b \in Args : ThFlushRe(b) /\ UNCHANGED <<rlVars, dbVars>>
  \/ TickTh /\ UNCHANGED <<rlVars, dbVars>>

SpecThRe == InitTh /\ [][NextThRe]_vars

InitDb ==
  /\ RateLimiterInit /\ strategy = "drop"
  /\ ThrottleInit(TRUE, TRUE)
  /\ \E l \in BOOLEAN, m \in {None, Some(MaxWaitMs)} : DebounceInit(l, m)

NextDb ==
  \/ \E a \in Args : Debounced(a) /\ UNCHANGED <<rlVars, thVars>>
  \/ DbTimerFire /\ UNCHANGED <<rlVars, thVars>>
  \/ DbMaxTimerFire /\ UNCHANGED <<rlVars, thVars>>
  \/ DbCancel /\ UNCHANGED <<rlVars, thVars>>
  \/ DbFlush /\ UNCHANGED <<rlVars, thVars>>
  \/ TickDb /\ UNCHANGED <<rlVars, thVars>>

SpecDb == InitDb /\ [][NextDb]_vars

\* Time advances and due timers fire (the event loop runs).
FairSpecRL ==
  /\ SpecRL
  /\ WF_vars(TickRL /\ UNCHANGED <<thVars, dbVars>>)
  /\ WF_vars(DrainFire /\ UNCHANGED <<thVars, dbVars>>)

\* ------------------------------------------------------ RateLimiter claims

InQueue(w) == \E i \in DOMAIN queue : queue[i] = w
IsResolved(w) == \E i \in DOMAIN resolved : resolved[i] = w

\* C1: a tryAcquire() succeeds if and only if fewer than Limit slot-consuming
\* grants since construction or the last reset() are newer than now - Window;
\* the stored timestamp count never exceeds Limit.
C1_SlidingWindow ==
  /\ Len(timestamps) <= Limit
  /\ LiveGrants <= Limit
  /\ tryAcquire(timestamps).ok <=> SlotFree
  /\ rlEvent.op = "tryAcquire" => (rlEvent.ret = "true" <=> rlEvent.free)

\* C1 witness: the limiter is full, a tryAcquire() has just failed, and the
\* oldest grant is one ms from leaving the window.
C1_Witness ==
  /\ rlEvent.op = "tryAcquire" /\ rlEvent.ret = "false"
  /\ Len(grants) = Limit /\ grants[1] = now - Window + 1

\* C4: waiters are resolved in the order of their acquire() calls: the k-th
\* resolve() is that of the k-th parked acquire(), so nobody is resolved while
\* an earlier waiter still waits.
C4_QueueFIFO ==
  /\ resolved = [i \in 1..Len(resolved) |-> i]
  /\ \A w \in 1..MaxWaiters : ~(InQueue(w) /\ IsResolved(w))

\* C4 witness: a drain resolved exactly one waiter and left a later one waiting.
C4_Witness ==
  /\ rlEvent.op = "drain" /\ rlEvent.ret = "1"
  /\ Len(queue) >= 1 /\ Len(resolved) >= 1

\* C5 as stated: while waiters are parked, an arriving acquire() is never
\* granted a slot ahead of them.
C5_NoOvertaking ==
  ~(rlEvent.op = "acquire" /\ rlEvent.ret = "true" /\ rlEvent.qlen > 0)

\* C5 amended: under "queue", an acquire() that finds no free slot is appended
\* behind every waiter and the queue stays in arrival order; an acquire() that
\* finds a free slot is granted at once, whether or not waiters are parked.
C5_AppendedUnlessFree ==
  strategy = "queue" =>
    /\ \A i, j \in DOMAIN queue : i < j => queue[i] < queue[j]
    /\ rlEvent.op = "acquire" =>
         /\ rlEvent.ret = (IF rlEvent.free THEN "true" ELSE "queued")
         /\ rlEvent.ret = "queued" =>
              /\ Len(queue) = rlEvent.qlen + 1
              /\ queue[Len(queue)] = nextId - 1

\* C5 witness: an acquire() was parked behind waiters already in the queue.
C5_Witness ==
  rlEvent.op = "acquire" /\ rlEvent.ret = "queued" /\ rlEvent.qlen > 0

\* A direct call took a slot while waiters were parked.
Barged ==
  /\ rlEvent.op \in {"tryAcquire", "acquire"}
  /\ rlEvent.ret = "true"
  /\ rlEvent.qlen > 0

\* C6 as stated: every parked acquire() is eventually resolved, whatever other
\* calls are made meanwhile.
C6_AlwaysResolves ==
  \A w \in 1..MaxWaiters : InQueue(w) ~> IsResolved(w)

\* C6 amended: under "queue", acquire() never rejects or resolves false, and a
\* parked acquire() is eventually resolved unless direct calls keep taking
\* slots ahead of the queue for ever.
C6_ResolvesUnlessBarged ==
  /\ [](strategy = "queue" /\ rlEvent.op = "acquire" => rlEvent.ret \in {"true", "queued"})
  /\ \A w \in 1..MaxWaiters : ([]<>Barged) \/ (InQueue(w) ~> IsResolved(w))

\* C6 witness: a drain that found no free slot was followed by one that
\* resolved the last waiter.
C6_Witness ==
  /\ strategy = "queue" /\ rlEvent.op = "drain" /\ rlEvent.ret # "0"
  /\ queue = <<>> /\ Len(resolved) = MaxWaiters

\* C11: an acquire() that finds no slot free rejects with a RateLimitError
\* carrying limit and window under "error" and resolves false under "drop";
\* either way nothing is parked, no drain is scheduled and no slot is taken
\* (the timestamps are only cleaned); under "error" acquire() never resolves
\* false.
C11_Overflow ==
  /\ [](strategy = "error" /\ rlEvent.op = "acquire" => rlEvent.ret # "false")
  /\ [][(rlEvent'.op = "acquire" /\ ~SlotFree /\ strategy # "queue") =>
          /\ rlEvent'.ret = (IF strategy = "error" THEN "reject" ELSE "false")
          /\ rlEvent'.err = (IF strategy = "error"
                               THEN Some([name |-> "RateLimitError",
                                          limit |-> Limit, window |-> Window])
                               ELSE None)
          /\ queue' = <<>> /\ queue = <<>>
          /\ drainTimer' = None
          /\ resolved' = resolved
          /\ Len(timestamps') = Limit
          /\ \A i \in DOMAIN timestamps' : timestamps'[i] > now - Window
          /\ grants' = grants]_vars

\* C11 witness: an acquire() was rejected under "error" with the limiter full.
C11_Witness ==
  /\ strategy = "error" /\ rlEvent.op = "acquire" /\ rlEvent.ret = "reject"
  /\ rlEvent.err # None /\ Len(timestamps) = Limit /\ drainTimer = None

\* C12: right after reset(), remaining() is Limit, every waiter parked so far
\* has been resolved (true) with no slot taken for it, the queue is empty and no
\* drain timer is set or outstanding.
C12_Reset ==
  rlEvent.op = "reset" =>
    /\ remaining(timestamps) = Limit
    /\ timestamps = <<>> /\ grants = <<>>
    /\ \A w \in 1..(nextId - 1) : IsResolved(w)
    /\ Len(resolved) = nextId - 1
    /\ queue = <<>>
    /\ drainTimer = None /\ drainTimers = 0

\* C12 witness: reset() was called with the limiter full and two waiters parked.
C12_Witness ==
  /\ rlEvent.op = "reset" /\ rlEvent.qlen >= 2 /\ ~rlEvent.free
  /\ Len(resolved) >= 2

\* C19: between operations at most one drain timer is outstanding, it is the
\* one the handle names, and it is set exactly when waiters are parked; so no
\* drain fires for an empty queue.
C19_DrainScheduling ==
  /\ drainTimers <= 1
  /\ drainTimers = 1 <=> drainTimer # None
  /\ drainTimer # None <=> queue # <<>>
  /\ rlEvent.op = "drain" => rlEvent.qlen > 0

\* C19 witness: a drain found no free slot and re-armed the timer for the two
\* waiters it left parked.
C19_Witness ==
  /\ rlEvent.op = "drain" /\ rlEvent.ret = "0"
  /\ Len(queue) >= 2 /\ drainTimer # None /\ drainTimers = 1

\* C13: a call of wrap(fn)'s function invokes fn with its own arguments exactly
\* when its acquire() is granted: at once if a slot is free, on being resolved
\* if it was parked; refused under "drop" or "error" it fails with a
\* RateLimitError and fn does not run. Every invocation that reset() did not
\* release took a slot, so at most Limit of them fall in any window.
C13_Wrap ==
  /\ [](Len(fnRuns) <= Limit)
  /\ [](\A i \in DOMAIN fnRuns : \E j \in DOMAIN grants : grants[j] = fnRuns[i])
  /\ [][rlEvent'.op = "wrap" =>
          LET a == rlEvent'.arg
          IN  IF SlotFree
                THEN /\ rlEvent'.ret = "invoked" /\ rlEvent'.ran = <<a>>
                     /\ fnRuns' = Append(fnRuns, now)
                     /\ grants' = Append(grants, now)
                ELSE /\ rlEvent'.ran = <<>>
                     /\ fnRuns' = fnRuns
                     /\ grants' = grants
                     /\ IF strategy = "queue"
                          THEN /\ rlEvent'.ret = "queued"
                               /\ queue' = Append(queue, nextId)
                               /\ waiterArg'[nextId] = Some(a)
                          ELSE /\ rlEvent'.ret = "reject"
                               /\ rlEvent'.err = Some([name |-> "RateLimitError",
                                                       limit |-> Limit, window |-> Window])
                               /\ queue' = queue]_vars
  /\ [][rlEvent'.op \in {"drain", "reset"} =>
          LET released == SubSeq(resolved', Len(resolved) + 1, Len(resolved'))
              wrapped == SelectSeq(released, LAMBDA w : waiterArg[w] # None)
          IN  /\ rlEvent'.ran = [k \in DOMAIN wrapped |-> waiterArg[wrapped[k]][1]]
              /\ rlEvent'.op = "drain" =>
                    /\ fnRuns' = fnRuns \o Repeat(now, Len(wrapped))
                    /\ grants' = grants \o Repeat(now, Len(released))]_vars
  /\ [][rlEvent'.op = "tick" =>
          /\ rlEvent'.ran = <<>>
          /\ Len(fnRuns') <= Len(fnRuns)]_vars

\* C13 witness: under "drop" a call of wrap(fn)'s function was refused after
\* Limit calls in the window had run fn.
C13_Witness ==
  /\ strategy = "drop" /\ rlEvent.op = "wrap" /\ rlEvent.ret = "reject"
  /\ rlEvent.err # None /\ Len(fnRuns) = Limit

\* C21: retryAfter() returns r with 0 <= r <= Window, and r = 0 exactly when a
\* slot is free; as long as no slot is taken and reset() is not called after
\* it returned r, a tryAcquire() or acquire() is granted a slot exactly when r
\* ms or more have passed: refused at every instant before, granted at now + r.
C21_RetryAfter ==
  /\ retryAfter(timestamps) \in 0..Window
  /\ retryAfter(timestamps) = 0 <=> SlotFree
  /\ rlEvent.op = "retryAfter" =>
       /\ retryDue = <<retryAfter(timestamps), retryAfter(timestamps)>>
       /\ rlEvent.ret = ToString(retryDue[2])
       /\ rlEvent.ret = "0" <=> rlEvent.free
  /\ retryDue # None =>
       /\ retryDue[2] \in 0..Window /\ retryDue[1] \in 0..retryDue[2]
       /\ SlotFree <=> retryDue[1] = 0
  /\ rlEvent.op \in {"tryAcquire", "acquire"} /\ rlEvent.due # None =>
       (rlEvent.ret = "true" <=> rlEvent.due[1] = 0)

\* C21 witness: retryAfter() returned Window with the limiter full, and the
\* tryAcquire() made Window ms later, with no slot taken meanwhile, succeeded.
C21_Witness ==
  /\ rlEvent.op = "tryAcquire" /\ rlEvent.ret = "true"
  /\ rlEvent.due = <<0, Window>>

\* --------------------------------------------------------- throttle claims

ThExecuted == thEvent.exec # None

\* C2: an execution of fn that flush() did not trigger happens at least Wait
\* after the previous execution, whatever the leading/trailing setting.
C2_RateBound ==
  (ThExecuted /\ thEvent.op # "flush") => thEvent.gap >= Wait

\* C2 witness: the trailing timer ran fn exactly Wait after an execution that
\* had been followed by suppressed calls.
C2_Witness ==
  /\ thEvent.op = "timer" /\ ThExecuted
  /\ thEvent.gap = Wait /\ thEvent.k = 2 /\ thEvent.fresh = None

\* C7: with leading and trailing enabled, a call made Wait or more after the
\* last execution runs fn at once with its own arguments and returns fn's
\* result; every other call returns undefined and runs nothing; once such a
\* call was suppressed a single trailing timer is due exactly when the window
\* ends and runs fn with the arguments of the latest call; with no suppressed
\* call there is no timer.
C7_PerWindow ==
  (thLeading /\ thTrailing) =>
    /\ thEvent.op = "call" =>
         IF thEvent.gap >= Wait
           THEN thEvent.exec = Some(thEvent.arg) /\ thEvent.ret = Some(thEvent.arg)
           ELSE thEvent.exec = None /\ thEvent.ret = None
    /\ thSuppressed >= 1 =>
         /\ thTimer = Some(now + Wait - thSinceExec)
         /\ thLastArgs = thLastCall
    /\ thSuppressed = 0 => thTimer = None
    /\ thEvent.op = "timer" =>
         /\ thEvent.exec = thLastCall
         /\ thEvent.exec # None
         /\ thEvent.gap = Wait
         /\ thEvent.k >= 1

\* C7 witness: a window of three calls ended with the trailing execution
\* running the last call's arguments, which differ from the first call's.
C7_Witness ==
  /\ thLeading /\ thTrailing
  /\ thEvent.op = "timer" /\ thEvent.k = 2 /\ thEvent.exec = Some(MaxArg)

\* C8: with leading disabled and trailing enabled, after a call made when fn
\* had not run in the preceding Wait, the trailing timer does not run fn before
\* Wait has passed since that call.
C8_TrailingOnlyDelay ==
  (~thLeading /\ thTrailing /\ thEvent.op = "timer" /\ ThExecuted /\ thEvent.fresh # None)
    => thEvent.fresh[1] >= Wait

\* C14: cancel() leaves no trailing timer, pending false and no pending
\* arguments; afterwards the timer and flush() execute fn only for a wrapper
\* call made since the cancel().
C14_ThrottleCancel ==
  /\ thEvent.op = "cancel" => thTimer = None /\ ~thIsPending /\ thLastArgs = None
  /\ ThExecuted /\ thEvent.op \in {"timer", "flush"} =>
       thEvent.k >= 1 /\ thEvent.exec = thLastCall

\* C14 witness: cancel() was called with a trailing execution scheduled for
\* two suppressed calls.
C14_Witness ==
  /\ thEvent.op = "cancel" /\ thEvent.k = 2 /\ thTrailing
  /\ thTimer = None /\ thLastCall # None

\* C15: with a trailing timer scheduled and arguments pending, flush() runs fn
\* once, now, with the arguments of the latest call, clears the timer and the
\* pending arguments and leaves pending false; otherwise it runs nothing and
\* changes nothing, as a flush() right after a flush() does.
C15_ThrottleFlush ==
  /\ [][thEvent'.op = "flush" =>
          IF thTimer # None /\ thLastArgs # None
            THEN /\ thEvent'.exec = thLastCall /\ thLastCall # None
                 /\ thSinceExec' = 0
                 /\ thTimer' = None /\ thLastArgs' = None /\ ~thIsPending'
            ELSE /\ thEvent'.exec = None
                 /\ UNCHANGED <<thTimer, thLastArgs, thIsPending, thLastExecTime,
                                thSinceExec, thSuppressed, thLastCall>>]_vars
  /\ [][thEvent.op = "flush" /\ thEvent'.op = "flush" =>
          /\ thEvent'.exec = None
          /\ UNCHANGED <<thTimer, thLastArgs, thIsPending, thLastExecTime>>]_vars

\* C15 witness: flush() ran fn with the arguments of the second of two
\* suppressed calls.
C15_Witness ==
  /\ thEvent.op = "flush" /\ thEvent.exec # None /\ thEvent.k = 2
  /\ thEvent.exec = thLastCall /\ thTimer = None /\ ~thIsPending

\* C18 as stated: between operations, pending is true exactly when a trailing
\* timer is scheduled.
C18_PendingIffTimer == thIsPending <=> thTimer # None

\* C22 as stated: when fn, run by the trailing timer callback or by flush(),
\* calls the wrapper with B, a new trailing timer is scheduled with B pending;
\* B is still pending when a trailing timer fires, so the fire runs fn with the
\* arguments of the latest call and leaves pending false.
C22_ReentrantCallKept ==
  /\ thEvent.op \in {"timerRe", "flushRe"} =>
       /\ thTimer # None /\ thIsPending
       /\ thLastArgs = Some(thEvent.arg)
  /\ thEvent.op = "timer" =>
       /\ thEvent.exec # None /\ thEvent.exec = thLastCall
       /\ ~thIsPending

\* --------------------------------------------------------- debounce claims

\* C3: without leading and maxWait, no call of a burst runs fn; the quiet
\* timer is always due exactly Wait after the latest call; when it fires fn
\* runs once, for the first time since the burst began, with the arguments of
\* the latest call.
C3_Coalescing ==
  (~dbLeading /\ dbMaxWait = None) =>
    /\ dbEvent.op = "call" => dbEvent.exec = None
    /\ dbBurst # None =>
         /\ dbBurstExecs = 0
         /\ dbTimer = Some(now + Wait - dbSinceCall)
    /\ dbBurst = None => dbTimer = None
    /\ dbEvent.op = "timer" =>
         /\ dbEvent.exec # None
         /\ dbEvent.exec = dbLastCall
         /\ dbEvent.sinceCall = Wait
         /\ dbEvent.execs = 0
         /\ dbBurstExecs = 1

\* C3 witness: a burst of several calls ended with the quiet timer running the
\* last call's arguments.
C3_Witness ==
  /\ ~dbLeading /\ dbMaxWait = None
  /\ dbEvent.op = "timer" /\ dbEvent.calls = 2
  /\ dbEvent.exec = Some(MaxArg) /\ dbEvent.burst = Some(MaxWaitMs + 1)

\* C9: with leading enabled, the quiet timer that follows a single isolated
\* call does not run fn again: fn has run once in total.
C9_NoDoubleFire ==
  (dbLeading /\ dbEvent.op = "timer" /\ dbEvent.calls = 1) =>
    /\ dbEvent.exec = None
    /\ dbBurstExecs = 1

\* C10: with maxWait = M, a burst in progress always has its ceiling timer due
\* exactly M after the call that started it, so the burst is over by then; a
\* burst that ends without cancel() has run fn, last with the latest call's
\* arguments, and leaves neither timer behind; the ceiling callback itself
\* runs fn with the latest arguments M after the burst began.
C10_MaxWait ==
  dbMaxWait # None =>
    /\ dbBurst # None =>
         /\ dbBurst[1] <= dbMaxWait[1]
         /\ dbMaxTimer = Some(now + dbMaxWait[1] - dbBurst[1])
         /\ dbTimer # None
    /\ dbBurst = None => (dbTimer = None /\ dbMaxTimer = None)
    /\ (dbEvent.op \in {"timer", "max", "flush"} /\ dbEvent.burst # None) =>
         /\ dbBurst = None
         /\ dbLastExec # None
         /\ dbLastExec = dbLastCall
    /\ dbEvent.op = "max" =>
         /\ dbEvent.burst = dbMaxWait
         /\ dbEvent.exec # None
         /\ dbEvent.exec = dbLastCall

\* C10 witness: calls kept arriving less than Wait apart and the ceiling timer
\* ended the burst with the last call's arguments.
C10_Witness ==
  /\ dbMaxWait # None /\ dbEvent.op = "max"
  /\ dbEvent.calls = 2 /\ dbEvent.sinceCall < Wait
  /\ dbEvent.exec = Some(MaxArg) /\ dbLastExec = Some(MaxArg)

\* C16: cancel() leaves neither timer scheduled, pending false, and the
\* pending arguments and the leading-fired flag cleared; with no wrapper call
\* since the burst was resolved, no timer fire or flush() executes fn.
C16_DebounceCancel ==
  /\ dbEvent.op = "cancel" =>
       /\ dbEvent.exec = None
       /\ dbTimer = None /\ dbMaxTimer = None
       /\ ~dbIsPending /\ dbLastArgs = None /\ ~dbLeadingCalled
  /\ dbEvent.op \in {"timer", "max", "flush"} /\ dbEvent.burst = None =>
       dbEvent.exec = None

\* C16 witness: cancel() was called in a burst of two calls under a ceiling.
C16_Witness ==
  /\ dbEvent.op = "cancel" /\ dbEvent.calls = 2 /\ dbMaxWait # None
  /\ dbTimer = None /\ dbLastCall # None

\* C17: with leading = false, flush() during a burst runs fn once, now, with
\* the arguments of the latest call, leaves no timer for that burst and pending
\* false; flush() with no burst in progress runs nothing.
C17_DebounceFlush ==
  ~dbLeading /\ dbEvent.op = "flush" =>
    IF dbEvent.burst # None
      THEN /\ dbEvent.exec # None /\ dbEvent.exec = dbLastCall
           /\ dbEvent.execs = 0 /\ dbBurstExecs = 1
           /\ dbTimer = None /\ dbMaxTimer = None
           /\ ~dbIsPending /\ dbLastArgs = None /\ dbBurst = None
      ELSE /\ dbEvent.exec = None
           /\ dbTimer = None /\ ~dbIsPending

\* C17 witness: flush() ran fn with the arguments of the second call of a burst.
C17_Witness ==
  /\ ~dbLeading /\ dbEvent.op = "flush" /\ dbEvent.calls = 2
  /\ dbEvent.exec # None /\ dbEvent.exec = dbLastCall /\ dbTimer = None

\* C20: a ceiling timer is scheduled only with maxWait configured and a burst
\* in progress, hence only while the quiet-period timer is scheduled too; a
\* quiet-period fire, a ceiling fire, flush() and cancel() leave none behind.
C20_CeilingTimer ==
  /\ dbMaxTimer # None => dbMaxWait # None /\ dbBurst # None /\ dbTimer # None
  /\ dbEvent.op \in {"timer", "max", "flush", "cancel"} => dbMaxTimer = None

\* C20 witness: the quiet-period timer resolved a burst of two calls that had
\* a ceiling timer running.
C20_Witness ==
  /\ dbEvent.op = "timer" /\ dbMaxWait # None /\ dbEvent.calls = 2
  /\ dbEvent.exec # None /\ dbMaxTimer = None

====
